---- MODULE Spec2Model ----
(***************************************************************************)
(* Slideshow controller of photoloop.py: SlideshowWidget (catalog, index,  *)
(* dwell timer, transitions), the VideoThread it owns, and the folder      *)
(* refresh of CloudinarySlideshow.                                         *)
(*                                                                         *)
(* Every UI-thread handler (a Qt slot or event) is one action: it runs to  *)
(* completion on the event loop, nested calls included.  The decode thread *)
(* and the deferred work of the event loop (queued signals, deleteLater,   *)
(* animation completion) are actions of their own.                         *)
(***************************************************************************)
EXTENDS Integers, Sequences, FiniteSets, TLC

VARIABLES
    universe,               \* file names the media source produces in this run
    files,                  \* files present in the download folder
    media_files,            \* SlideshowWidget.media_files, as a sequence of paths
    current_media_index,    \* SlideshowWidget.current_media_index (0-based)
    timer_active,           \* self.timer.isActive()
    timer_interval,         \* self.timer.interval(), ms
    timer_elapsed,          \* time has passed since the timer was last (re)started
    display_duration,       \* self.display_duration, ms
    transition_style,       \* self.transition_style
    temp_image_label,       \* self.temp_image_label: absent | live | scheduled | deleted
    image_visible,          \* self.image_label is shown (not hidden)
    image_pixmap,           \* what self.image_label.pixmap() holds: None, or the
                            \* file and the scale (percent of the display area)
    transitions,            \* crossfade / Ken Burns animations started and not
                            \* finished, each with the state of its transient label
    vt_pc,                  \* VideoThread: idle | starting | decoding
    vt_path,                \* VideoThread.video_path
    vt_cap,                 \* the file VideoThread.cap is open on, None when released
    vt_pending,             \* playback_completed signals queued to the UI thread
    vt_elapsed,             \* time.time() - start_time of the decode loop, seconds
                            \* (followed by the specification of the decode loop)
    qr_code_position,       \* self.qr_code_position, as the words and hyphens of
                            \* the string
    event_loop              \* running | closed (closeEvent) | aborted (a handler hit
                            \* the interpreter's recursion limit)

vars == <<universe, files, media_files, current_media_index, timer_active,
          timer_interval, timer_elapsed, display_duration, transition_style,
          temp_image_label, image_visible, image_pixmap, transitions,
          vt_pc, vt_path, vt_cap, vt_pending, vt_elapsed, qr_code_position,
          event_loop>>

None == "None"

(***************************************************************************)
(* The media files of the model.  What a file is decides how the code      *)
(* treats it: its extension gives the kind, its content what QImage and    *)
(* cv2.VideoCapture report.                                                *)
(***************************************************************************)
Paths == {"a.jpg", "b.png", "x.jpg", "s.mp4", "l.mp4", "f.mp4", "z.mp4", "r.mp4"}

\* The sets of file names one run draws its files from.
Universes ==
    {{"a.jpg", "b.png"}, {"a.jpg", "x.jpg"}, {"a.jpg", "s.mp4"}, {"a.jpg", "z.mp4"},
     {"s.mp4", "f.mp4"}, {"l.mp4"}, {"f.mp4"}, {"r.mp4"}}

\* Listing order of the folder (os.listdir), fixed per name.
Rank(p) ==
    CASE p = "a.jpg" -> 1 [] p = "b.png" -> 2 [] p = "s.mp4" -> 3
      [] p = "l.mp4" -> 4 [] p = "f.mp4" -> 5 [] p = "z.mp4" -> 6
      [] p = "r.mp4" -> 7 [] p = "x.jpg" -> 8

ImageFormats == {"jpg", "png"}
VideoFormats == {"mp4"}

Ext(p) ==
    CASE p \in {"a.jpg", "x.jpg"} -> "jpg"
      [] p \in {"b.png"} -> "png"
      [] OTHER -> "mp4"

\* media_type of a file, from its extension
MediaType(p) == IF Ext(p) \in ImageFormats THEN "image" ELSE "video"

\* cv2.VideoCapture(p): "raises" | "closed" (isOpened() false) | "open"
Capture(p) ==
    IF p \notin files THEN "closed"
    ELSE CASE p = "z.mp4" -> "closed"
           [] p = "r.mp4" -> "raises"
           [] OTHER -> "open"

\* cap.get(cv2.CAP_PROP_FPS)
Fps(p) == CASE p = "s.mp4" -> 30 [] p = "l.mp4" -> 25 [] OTHER -> 0

\* int(cap.get(cv2.CAP_PROP_FRAME_COUNT))
FrameCount(p) == CASE p = "s.mp4" -> 150 [] p = "l.mp4" -> 17500 [] OTHER -> 150

\* QImage(p).isNull()
ImageIsNull(p) == p \notin files \/ MediaType(p) # "image" \/ p = "x.jpg"

DwellChoices == {1000, 5000}
Styles == {"none", "fade", "slide", "zoom", "crossfade", "ken burns"}
\* The styles the control panel offers (transition_combo)
PanelStyles == {"none", "fade", "slide", "zoom"}

MaxPending == 2
MaxInFlight == 2
\* The clock of the decode loop: read in steps of TickSec, followed up to MaxElapsed
TickSec == 300
MaxElapsed == 900

(***************************************************************************)
(* The state a handler works on, as one record.                            *)
(***************************************************************************)
Self ==
    [media_files |-> media_files,
     current_media_index |-> current_media_index,
     timer_active |-> timer_active,
     timer_interval |-> timer_interval,
     timer_elapsed |-> timer_elapsed,
     display_duration |-> display_duration,
     transition_style |-> transition_style,
     temp_image_label |-> temp_image_label,
     image_visible |-> image_visible,
     image_pixmap |-> image_pixmap,
     transitions |-> transitions,
     vt_pc |-> vt_pc,
     vt_path |-> vt_path,
     vt_cap |-> vt_cap,
     vt_pending |-> vt_pending,
     event_loop |-> event_loop]

\* The handler's result becomes the next state.
Commit(r) ==
    /\ media_files' = r.media_files
    /\ current_media_index' = r.current_media_index
    /\ timer_active' = r.timer_active
    /\ timer_interval' = r.timer_interval
    /\ timer_elapsed' = r.timer_elapsed
    /\ display_duration' = r.display_duration
    /\ transition_style' = r.transition_style
    /\ temp_image_label' = r.temp_image_label
    /\ image_visible' = r.image_visible
    /\ image_pixmap' = r.image_pixmap
    /\ transitions' = r.transitions
    /\ vt_pc' = r.vt_pc
    /\ vt_path' = r.vt_path
    /\ vt_cap' = r.vt_cap
    /\ vt_pending' = r.vt_pending
    /\ event_loop' = r.event_loop

\* The counters of the model stay within their bounds.
Bounded(r) ==
    /\ r.vt_pending <= MaxPending
    /\ Len(r.transitions) <= MaxInFlight

(***************************************************************************)
(* QTimer                                                                  *)
(***************************************************************************)
\* QTimer.start(msec): sets the interval and (re)starts the countdown
timer_start(s, msec) ==
    [s EXCEPT !.timer_active = TRUE, !.timer_interval = msec, !.timer_elapsed = FALSE]

\* QTimer.setInterval(msec): an active timer is killed and started again
timer_setInterval(s, msec) ==
    [s EXCEPT !.timer_interval = msec,
              !.timer_elapsed = IF s.timer_active THEN FALSE ELSE s.timer_elapsed]

\* QTimer.stop()
timer_stop(s) == [s EXCEPT !.timer_active = FALSE, !.timer_elapsed = FALSE]

(***************************************************************************)
(* VideoThread, as the UI thread sees it                                   *)
(***************************************************************************)
\* QThread.isRunning(): from start() until run() has returned
isRunning(s) == s.vt_pc # "idle"

\* What run() does with video_path p up to its decode loop:
\* "missing" (one playback_completed), "closed" (two: the early return and the
\* finally block), "raises" (one, from the finally block), "decodes"
RunOutcome(p) ==
    IF p = None \/ p \notin files THEN "missing"
    ELSE CASE Capture(p) = "closed" -> "closed"
           [] Capture(p) = "raises" -> "raises"
           [] OTHER -> "decodes"

\* playback_completed signals of a run() that ends before decoding a frame
EarlyEmits(p) == IF RunOutcome(p) = "closed" THEN 2 ELSE 1

\* The thread gets from start() to its decode loop, or to its end.
run_begin(s) ==
    IF RunOutcome(s.vt_path) = "decodes"
    THEN [s EXCEPT !.vt_pc = "decoding", !.vt_cap = s.vt_path]
    ELSE [s EXCEPT !.vt_pc = "idle", !.vt_pending = @ + EarlyEmits(s.vt_path)]

\* The decode loop ends (end of stream, flag cleared, time limit): the finally
\* block releases the capture and emits playback_completed.
run_end(s) == [s EXCEPT !.vt_pc = "idle", !.vt_cap = None, !.vt_pending = @ + 1]

\* VideoThread.stop(): clears the flag, then sleeps 0.2 s and waits up to 1 s.
\* A decoding thread sees the flag and ends.  A thread that has not yet reached
\* `self.running = True` sets the flag again after stop() cleared it and goes on.
stop(s) ==
    CASE s.vt_pc = "decoding" -> run_end(s)
      [] s.vt_pc = "starting" -> run_begin(s)
      [] OTHER -> s

\* VideoThread.set_video
set_video(s, p) == [s EXCEPT !.vt_path = p]

\* QThread.start(): does nothing when the thread is running
start(s) == IF isRunning(s) THEN s ELSE [s EXCEPT !.vt_pc = "starting"]

\* SlideshowWidget.play_video
play_video(s, video_path) ==
    LET s1 == [s EXCEPT !.image_visible = FALSE]
        s2 == IF isRunning(s1) THEN stop(s1) ELSE s1
    IN  start(set_video(s2, video_path))

(***************************************************************************)
(* Showing one item                                                        *)
(***************************************************************************)
\* The pixmap display_image puts on the image label: the image scaled to fit the
\* display area
FitPercent == 100
\* image_label.pixmap() of a label no pixmap was set on
NoPixmap == [path |-> None, scale |-> 0]
DirectRender(image_path) == [path |-> image_path, scale |-> FitPercent]

\* SlideshowWidget.display_image
display_image(s, image_path) ==
    LET s1 == [s EXCEPT !.image_visible = TRUE]
        s2 == IF isRunning(s1) THEN stop(s1) ELSE s1
    IN  IF ImageIsNull(image_path) THEN s2
        ELSE [s2 EXCEPT !.image_pixmap = DirectRender(image_path)]

CrossfadeMs == 1200
KenBurnsMaxMs == 4000
KenBurnsLeadMs == 500

Min(a, b) == IF a < b THEN a ELSE b

\* Mutant of crossfade_ok: the check for a prior image is left out
crossfade_ok_without_prior(s, p) == ~ImageIsNull(p)

\* perform_crossfade_transition returns True
crossfade_ok(s, p) == s.image_pixmap # NoPixmap /\ ~ImageIsNull(p)

\* perform_crossfade_transition, when it returns True: the overlay label and
\* its animation exist until finish_transition runs
perform_crossfade_transition(s, p) ==
    [s EXCEPT !.transitions =
        Append(@, [style |-> "crossfade", path |-> p, duration |-> CrossfadeMs,
                   label |-> "live"])]

\* perform_ken_burns_transition returns True
ken_burns_ok(s, p) == ~ImageIsNull(p)

\* Mutant of KenBurnsDuration: the animation takes the whole dwell time
KenBurnsDuration_whole_dwell(dwell_ms) == Min(dwell_ms, KenBurnsMaxMs)

\* duration = min(self.display_duration - 500, 4000)
KenBurnsDuration(dwell_ms) == Min(dwell_ms - KenBurnsLeadMs, KenBurnsMaxMs)

\* perform_ken_burns_transition, when it returns True
perform_ken_burns_transition(s, p) ==
    [s EXCEPT !.image_visible = FALSE,
              !.transitions =
        Append(@, [style |-> "ken burns", path |-> p,
                   duration |-> KenBurnsDuration(s.display_duration),
                   label |-> "live"])]

\* apply_transition raises: old_label.pixmap() on a label the event loop has deleted
apply_transition_raises(s) == s.temp_image_label = "deleted"

FadeMs == 800
SlideMs == 600
ZoomMs == 700

\* The duration of the animations apply_transition starts
TransitionMs(style) ==
    CASE style = "fade" -> FadeMs [] style = "slide" -> SlideMs [] OTHER -> ZoomMs

\* old_label.pixmap() of self.temp_image_label: the label is created without a
\* pixmap and setPixmap is not called on it anywhere
TempLabelPixmap == NoPixmap

\* apply_transition(old_label) with old_label = self.temp_image_label: without a
\* pixmap the label is scheduled for deletion and nothing is animated; with one,
\* a snapshot label is animated against the incoming content
apply_transition(s) ==
    IF TempLabelPixmap = NoPixmap THEN [s EXCEPT !.temp_image_label = "scheduled"]
    ELSE [s EXCEPT !.temp_image_label = "scheduled",
                   !.transitions =
                       Append(@, [style |-> s.transition_style,
                                  path |-> s.media_files[s.current_media_index + 1],
                                  duration |-> TransitionMs(s.transition_style),
                                  label |-> "live"])]

MaxVideoMs == 600000
MaxVideoSec == 600
BufferMs == 500

\* duration > 600, with duration = total_frames / fps if fps > 0 else 0
TooLong(p) == Fps(p) > 0 /\ FrameCount(p) > MaxVideoSec * Fps(p)

\* int(duration * 1000)
DurationMs(p) == IF Fps(p) > 0 THEN (FrameCount(p) * 1000) \div Fps(p) ELSE 0

\* Mutant of VideoInterval: the 10 minute limit is forgotten
VideoInterval_uncapped(p) == DurationMs(p) + BufferMs

\* The interval show_current_media gives the timer for a video it could probe
VideoInterval(p) == IF TooLong(p) THEN MaxVideoMs ELSE DurationMs(p) + BufferMs

\* The deepest chain of show_current_media -> next_media calls a handler can
\* make before the interpreter's recursion limit ends it.  One round over the
\* catalog leaves the state as it was, so a chain longer than the catalog has
\* no end.
RecursionLimit == Cardinality(Paths) + 2

RemoveAt(seq, i) == SubSeq(seq, 1, i - 1) \o SubSeq(seq, i + 1, Len(seq))

RECURSIVE show_current_media(_, _)
RECURSIVE next_media(_, _)

\* The rest of show_current_media once the item to show is known (lines 433-495)
show_item(s, media_path, depth) ==
    LET media_type == MediaType(media_path)
        special ==
            IF media_type = "image" /\ s.transition_style = "crossfade" /\ s.image_visible
               /\ crossfade_ok(s, media_path)
            THEN "crossfade"
            ELSE IF media_type = "image"
                    /\ ~(s.transition_style = "crossfade" /\ s.image_visible)
                    /\ s.transition_style = "ken burns" /\ ken_burns_ok(s, media_path)
            THEN "ken burns"
            ELSE "no"
        old_image_label == s.temp_image_label # "absent"
        s1 == IF old_image_label THEN s ELSE [s EXCEPT !.temp_image_label = "live"]
        transit == old_image_label
                   /\ s.transition_style # "none"
                   /\ s.transition_style \notin {"crossfade", "ken burns"}
        finish(t) == IF ~transit THEN t
                     ELSE IF apply_transition_raises(t) THEN next_media(t, depth + 1)
                     ELSE apply_transition(t)
    IN  CASE special = "crossfade" ->
               timer_setInterval(perform_crossfade_transition(s, media_path),
                                 s.display_duration)
          [] special = "ken burns" ->
               timer_setInterval(perform_ken_burns_transition(s, media_path),
                                 s.display_duration)
          [] special = "no" /\ media_type = "image" ->
               finish(timer_setInterval(display_image(s1, media_path),
                                        s1.display_duration))
          [] OTHER ->
               LET s2 == play_video(s1, media_path)
               IN  CASE Capture(media_path) = "closed" -> next_media(s2, depth + 1)
                     [] Capture(media_path) = "raises" ->
                          finish(timer_setInterval(s2, MaxVideoMs))
                     [] OTHER ->
                          finish(timer_setInterval(s2, VideoInterval(media_path)))

\* SlideshowWidget.show_current_media
show_current_media(s, depth) ==
    IF s.media_files = <<>> THEN s
    ELSE IF depth > RecursionLimit
    THEN \* the signals queued on the way are never delivered: their count is
         \* kept within its bound
         [s EXCEPT !.event_loop = "aborted", !.vt_pending = Min(@, MaxPending)]
    ELSE IF s.current_media_index >= Len(s.media_files)
    THEN next_media(s, depth + 1)      \* IndexError, caught at line 497
    ELSE LET media_path == s.media_files[s.current_media_index + 1]
         IN  IF media_path \in files THEN show_item(s, media_path, depth)
             ELSE LET popped == RemoveAt(s.media_files, s.current_media_index + 1)
                  IN  IF popped = <<>> THEN [s EXCEPT !.media_files = popped]
                      ELSE LET s1 == [s EXCEPT
                                        !.media_files = popped,
                                        !.current_media_index = @ % Len(popped)]
                           IN  show_item(s1, s1.media_files[s1.current_media_index + 1],
                                         depth)

\* SlideshowWidget.next_media
next_media(s, depth) ==
    IF s.media_files = <<>> THEN s
    ELSE LET s1 == IF isRunning(s) THEN stop(s) ELSE s
             s2 == [s1 EXCEPT !.current_media_index = (@ + 1) % Len(s1.media_files)]
         IN  show_current_media(s2, depth)

\* SlideshowWidget.clear_transition_labels: deleteLater on every QLabel child but
\* the image, video and QR labels
clear_transition_labels(s) ==
    [s EXCEPT !.temp_image_label = IF @ = "live" THEN "scheduled" ELSE @,
              !.transitions =
                  [i \in 1..Len(@) |->
                      [@[i] EXCEPT !.label = IF @ = "live" THEN "scheduled" ELSE @]]]

\* SlideshowWidget.start_slideshow
start_slideshow(s) ==
    IF s.media_files = <<>> THEN s
    ELSE LET s1 == clear_transition_labels(s)
             s2 == show_current_media([s1 EXCEPT !.current_media_index = 0], 0)
         IN  IF s2.event_loop = "aborted" THEN s2 ELSE timer_start(s2, s2.display_duration)

\* SlideshowWidget.stop_slideshow
stop_slideshow(s) == stop(timer_stop(s))

\* Mutant of add_media: the path is appended without the membership test
add_media_without_test(s, media_path) ==
    LET s1 == [s EXCEPT !.media_files = Append(@, media_path)]
    IN  IF Len(s1.media_files) = 1 \/ ~s1.timer_active
        THEN start_slideshow(s1) ELSE s1

\* SlideshowWidget.add_media
add_media(s, media_path) ==
    IF \E i \in 1..Len(s.media_files) : s.media_files[i] = media_path THEN s
    ELSE LET s1 == [s EXCEPT !.media_files = Append(@, media_path)]
         IN  IF Len(s1.media_files) = 1 \/ ~s1.timer_active
             THEN start_slideshow(s1) ELSE s1

\* Mutant of handle_video_completed: the handler advances the slideshow itself
handle_video_completed_advances(s) == next_media(s, 0)

\* SlideshowWidget.handle_video_completed
handle_video_completed(s) ==
    IF ~s.timer_active THEN timer_start(s, s.display_duration) ELSE s

\* SlideshowWidget.set_display_duration
set_display_duration(s, duration_ms) ==
    LET s1 == [s EXCEPT !.display_duration = duration_ms]
    IN  IF s1.timer_active THEN timer_setInterval(s1, duration_ms) ELSE s1

\* SlideshowWidget.resizeEvent
resizeEvent(s) == IF s.media_files # <<>> THEN show_current_media(s, 0) ELSE s

\* os.listdir of the download folder, filtered by extension
RECURSIVE Listing(_)
Listing(fs) ==
    IF fs = {} THEN <<>>
    ELSE LET p == CHOOSE q \in fs : \A o \in fs : Rank(q) <= Rank(o)
         IN  <<p>> \o Listing(fs \ {p})

\* Mutant of refresh_media_list: the listing is added to the catalog
refresh_media_list_extends(s) ==
    LET found == Listing({p \in files : Ext(p) \in ImageFormats \cup VideoFormats})
        s1 == [s EXCEPT !.media_files = @ \o found]
    IN  IF found # <<>> /\ ~s1.timer_active THEN start_slideshow(s1) ELSE s1

\* CloudinarySlideshow.refresh_media_list
refresh_media_list(s) ==
    LET found == Listing({p \in files : Ext(p) \in ImageFormats \cup VideoFormats})
        s1 == [s EXCEPT !.media_files = found]
    IN  IF found # <<>> /\ ~s1.timer_active THEN start_slideshow(s1) ELSE s1

\* The last frame of a Ken Burns animation: a display-sized cut-out of the image
\* scaled to zoom_factor = 1.1 times the display area
KenBurnsPercent == 110
KenBurnsFrame(image_path) == [path |-> image_path, scale |-> KenBurnsPercent]

\* What the finished callback of transition t puts on the image label:
\* finish_transition the scaled new image, finish_ken_burns the last frame
FinalPixmap(t) ==
    IF t.style = "ken burns" THEN KenBurnsFrame(t.path) ELSE DirectRender(t.path)

\* finish_transition of a crossfade / finish_ken_burns.  finish_ken_burns reads
\* ken_burns_label.pixmap() first: on a label the event loop has deleted this
\* raises inside the slot, which ends the application.
finish_animation(s, i) ==
    LET t == s.transitions[i]
    IN  IF t.label = "deleted" THEN [s EXCEPT !.event_loop = "aborted"]
        ELSE [s EXCEPT !.transitions = RemoveAt(@, i),
                       !.image_pixmap = FinalPixmap(t),
                       !.image_visible = IF t.style = "ken burns" THEN TRUE ELSE @]

RECURSIVE Reap(_)
\* The transitions after the event loop has deleted the labels deleteLater was
\* called on: a crossfade stops with its target label and never finishes, a
\* Ken Burns animation (whose target is the widget) runs on
Reap(ts) ==
    IF ts = <<>> THEN <<>>
    ELSE LET t == Head(ts)
         IN  IF t.label # "scheduled" THEN <<t>> \o Reap(Tail(ts))
             ELSE IF t.style = "crossfade" THEN Reap(Tail(ts))
             ELSE <<[t EXCEPT !.label = "deleted"]>> \o Reap(Tail(ts))

\* The event loop handles the pending DeferredDelete events
deferred_delete(s) ==
    [s EXCEPT !.temp_image_label = IF @ = "scheduled" THEN "deleted" ELSE @,
              !.transitions = Reap(@)]


(***************************************************************************)
(* Initial state: SlideshowWidget.__init__ with an empty download folder   *)
(***************************************************************************)
Init ==
    /\ universe \in Universes
    /\ files = {}
    /\ media_files = <<>>
    /\ current_media_index = 0
    /\ timer_active = FALSE
    /\ timer_interval = 0
    /\ timer_elapsed = FALSE
    /\ display_duration = 5000
    /\ transition_style = "fade"
    /\ temp_image_label = "absent"
    /\ image_visible = TRUE
    /\ image_pixmap = NoPixmap
    /\ transitions = <<>>
    /\ vt_pc = "idle"
    /\ vt_path = None
    /\ vt_cap = None
    /\ vt_pending = 0
    /\ vt_elapsed = 0
    /\ qr_code_position = <<"bottom", "-", "right">>
    /\ event_loop = "running"

\* A handler of the UI thread runs and leaves result r.
Handle(r) ==
    /\ event_loop = "running"
    /\ Bounded(r)
    /\ Commit(r)
    /\ UNCHANGED <<universe, files, vt_elapsed, qr_code_position>>

(***************************************************************************)
(* The download folder                                                     *)
(***************************************************************************)
\* A download of the monitor completes, or a file is copied into the folder.
FileAppears ==
    /\ event_loop = "running"
    /\ \E p \in universe \ files : files' = files \cup {p}
    /\ UNCHANGED <<universe, media_files, current_media_index, timer_active,
                   timer_interval, timer_elapsed, display_duration, transition_style,
                   temp_image_label, image_visible, image_pixmap, transitions,
                   vt_pc, vt_path, vt_cap, vt_pending, vt_elapsed, qr_code_position,
          event_loop>>

\* A file is deleted from the folder.
FileRemoved ==
    /\ event_loop = "running"
    /\ \E p \in files : files' = files \ {p}
    /\ UNCHANGED <<universe, media_files, current_media_index, timer_active,
                   timer_interval, timer_elapsed, display_duration, transition_style,
                   temp_image_label, image_visible, image_pixmap, transitions,
                   vt_pc, vt_path, vt_cap, vt_pending, vt_elapsed, qr_code_position,
          event_loop>>

(***************************************************************************)
(* Events of the UI thread                                                 *)
(***************************************************************************)
\* QFileSystemWatcher.directoryChanged, or select_local_folder
RefreshMediaList == Handle(refresh_media_list(Self))

\* CloudinaryMonitor.new_media_signal / MediaDownloader.download_complete
\* (emitted for a file that has just been written to the folder)
AddMedia == \E p \in files : Handle(add_media(Self, p))

\* Time passes on the dwell timer.
Elapse ==
    /\ event_loop = "running"
    /\ timer_active /\ ~timer_elapsed
    /\ timer_elapsed' = TRUE
    /\ UNCHANGED <<universe, files, media_files, current_media_index, timer_active,
                   timer_interval, display_duration, transition_style,
                   temp_image_label, image_visible, image_pixmap, transitions,
                   vt_pc, vt_path, vt_cap, vt_pending, vt_elapsed, qr_code_position,
          event_loop>>

\* self.timer.timeout: the repeating timer starts its next round and calls next_media
TimerTimeout ==
    /\ timer_active /\ timer_elapsed
    /\ Handle(next_media([Self EXCEPT !.timer_elapsed = FALSE], 0))

ResizeEvent == Handle(resizeEvent(Self))

SetDisplayDuration == \E d \in DwellChoices : Handle(set_display_duration(Self, d))

\* SlideshowWidget.set_transition_style
set_transition_style(s, style) == [s EXCEPT !.transition_style = style]

\* transition_combo.currentTextChanged
SetTransitionStyle ==
    \E style \in PanelStyles : Handle(set_transition_style(Self, style))

\* CloudinarySlideshow.closeEvent: the slideshow is stopped and the window closes,
\* which ends the event loop
CloseEvent == Handle([stop_slideshow(Self) EXCEPT !.event_loop = "closed"])

\* A queued playback_completed signal is delivered.  stop_slideshow makes the
\* thread emit the signal while closeEvent runs; whether the event loop still
\* delivers it before the application has ended is not decided by the program.
HandleVideoCompleted ==
    /\ vt_pending > 0
    /\ event_loop \in {"running", "closed"}
    /\ Commit(handle_video_completed([Self EXCEPT !.vt_pending = @ - 1]))
    /\ UNCHANGED <<universe, files, vt_elapsed, qr_code_position>>

\* The animation of a transition finishes and its finished slot runs.
AnimationFinished ==
    \E i \in 1..Len(transitions) : Handle(finish_animation(Self, i))

\* The event loop deletes the labels deleteLater was called on.
DeferredDelete ==
    /\ \/ temp_image_label = "scheduled"
       \/ \E i \in 1..Len(transitions) : transitions[i].label = "scheduled"
    /\ Handle(deferred_delete(Self))

(***************************************************************************)
(* The decode thread                                                       *)
(***************************************************************************)
\* run() from its start to the decode loop
VideoRunBegins ==
    /\ vt_pc = "starting"
    /\ Handle(run_begin(Self))

\* run() leaves the decode loop by itself: end of stream or the 600 s limit
VideoRunEnds ==
    /\ vt_pc = "decoding"
    /\ Handle(run_end(Self))

\* The events of the application: the control panel offers PanelStyles only, so no
\* crossfade or Ken Burns animation is ever started.
Next ==
    \/ FileAppears
    \/ FileRemoved
    \/ RefreshMediaList
    \/ AddMedia
    \/ Elapse
    \/ TimerTimeout
    \/ ResizeEvent
    \/ SetDisplayDuration
    \/ SetTransitionStyle
    \/ CloseEvent
    \/ HandleVideoCompleted
    \/ DeferredDelete
    \/ VideoRunBegins
    \/ VideoRunEnds

Spec == Init /\ [][Next]_vars

(***************************************************************************)
(* The widget with the two styles it implements beyond the panel's:        *)
(* set_transition_style("crossfade") and set_transition_style("ken burns") *)
(***************************************************************************)
AnimatedStyles == {"crossfade", "ken burns"}

AnimatedUniverses == {{"a.jpg", "b.png"}, {"a.jpg", "s.mp4"}}

\* The runs of the animated styles: crossfade over images and a video, Ken Burns
\* (which only images take part in) over images
AnimatedSetups ==
    {su \in [style : AnimatedStyles, universe : AnimatedUniverses] :
        su.style = "ken burns" => \A p \in su.universe : MediaType(p) = "image"}

\* The widget after __init__ and one call set_transition_style(style)
InitAnimated ==
    \E su \in AnimatedSetups :
        /\ universe = su.universe
        /\ files = {}
        /\ media_files = <<>>
        /\ current_media_index = 0
        /\ timer_active = FALSE
        /\ timer_interval = 0
        /\ timer_elapsed = FALSE
        /\ display_duration = 5000
        /\ transition_style = su.style
        /\ temp_image_label = "absent"
        /\ image_visible = TRUE
        /\ image_pixmap = NoPixmap
        /\ transitions = <<>>
        /\ vt_pc = "idle"
        /\ vt_path = None
        /\ vt_cap = None
        /\ vt_pending = 0
        /\ vt_elapsed = 0
        /\ qr_code_position = <<"bottom", "-", "right">>
        /\ event_loop = "running"

NextAnimated ==
    \/ FileAppears
    \/ FileRemoved
    \/ RefreshMediaList
    \/ AddMedia
    \/ Elapse
    \/ TimerTimeout
    \/ ResizeEvent
    \/ SetDisplayDuration
    \/ CloseEvent
    \/ HandleVideoCompleted
    \/ AnimationFinished
    \/ DeferredDelete
    \/ VideoRunBegins
    \/ VideoRunEnds

SpecAnimated == InitAnimated /\ [][NextAnimated]_vars

(***************************************************************************)
(* The widget with style crossfade                                         *)
(***************************************************************************)
InitCrossfade == InitAnimated /\ transition_style = "crossfade"

SpecCrossfade == InitCrossfade /\ [][NextAnimated]_vars

(***************************************************************************)
(* The widget with style Ken Burns, for every dwell time of the duration   *)
(* slider (1 to 10 seconds), showing images                                *)
(***************************************************************************)
SliderSeconds == 1..10

InitKenBurns ==
    \E seconds \in SliderSeconds :
        /\ universe = {"a.jpg", "b.png"}
        /\ files = {}
        /\ media_files = <<>>
        /\ current_media_index = 0
        /\ timer_active = FALSE
        /\ timer_interval = 0
        /\ timer_elapsed = FALSE
        /\ display_duration = seconds * 1000
        /\ transition_style = "ken burns"
        /\ temp_image_label = "absent"
        /\ image_visible = TRUE
        /\ image_pixmap = NoPixmap
        /\ transitions = <<>>
        /\ vt_pc = "idle"
        /\ vt_path = None
        /\ vt_cap = None
        /\ vt_pending = 0
        /\ vt_elapsed = 0
        /\ qr_code_position = <<"bottom", "-", "right">>
        /\ event_loop = "running"

NextKenBurns ==
    \/ FileAppears
    \/ FileRemoved
    \/ RefreshMediaList
    \/ Elapse
    \/ TimerTimeout
    \/ ResizeEvent
    \/ AnimationFinished
    \/ CloseEvent

SpecKenBurns == InitKenBurns /\ [][NextKenBurns]_vars

(***************************************************************************)
(* The QR badge: the position combo box of the control panel,              *)
(* set_qr_code_position and position_qr_code.  A string is the sequence of *)
(* its words and hyphens.                                                  *)
(***************************************************************************)
\* qr_position_combo.addItems
QrPanelTexts ==
    {<<"Bottom", "-", "Right">>, <<"Bottom", "-", "Left">>,
     <<"Top", "-", "Right">>, <<"Top", "-", "Left">>}

\* str.lower() of one word
LowerWord(w) ==
    CASE w = "Bottom" -> "bottom" [] w = "Top" -> "top"
      [] w = "Left" -> "left" [] w = "Right" -> "right" [] OTHER -> w

\* text.lower()
Lower(text) == [i \in 1..Len(text) |-> LowerWord(text[i])]

\* text.replace("-", "")
RemoveHyphens(text) == SelectSeq(text, LAMBDA w : w # "-")

\* The slot of qr_position_combo.currentTextChanged: text.lower().replace("-", "")
PanelPosition(text) == RemoveHyphens(Lower(text))

\* The size of the slideshow widget, self.qr_code_size and the distance from the edge
WidgetWidth == 1024
WidgetHeight == 768
qr_code_size == 150
QrEdge == 20

Max(a, b) == IF a > b THEN a ELSE b

\* SlideshowWidget.position_qr_code with the badge enabled: the geometry given to
\* qr_label
position_qr_code(position) ==
    LET qr_x == IF position \in {<<"top", "-", "left">>, <<"bottom", "-", "left">>}
                THEN QrEdge ELSE WidgetWidth - qr_code_size - QrEdge
        qr_y == IF position \in {<<"top", "-", "right">>, <<"top", "-", "left">>}
                THEN QrEdge ELSE WidgetHeight - qr_code_size - QrEdge
    IN  [x |-> Max(0, Min(qr_x, WidgetWidth - qr_code_size)),
         y |-> Max(0, Min(qr_y, WidgetHeight - qr_code_size))]

\* SlideshowWidget.set_qr_code_position, called by the slot of the combo box
SelectQrPosition(text) ==
    /\ event_loop = "running"
    /\ LET r == IF media_files # <<>> THEN show_current_media(Self, 0) ELSE Self
       IN  Bounded(r) /\ Commit(r)
    /\ qr_code_position' = PanelPosition(text)
    /\ UNCHANGED <<universe, files, vt_elapsed>>

SetQrCodePosition == \E text \in QrPanelTexts : SelectQrPosition(text)

NextQr ==
    \/ FileAppears
    \/ FileRemoved
    \/ RefreshMediaList
    \/ Elapse
    \/ TimerTimeout
    \/ ResizeEvent
    \/ DeferredDelete
    \/ HandleVideoCompleted
    \/ VideoRunBegins
    \/ VideoRunEnds
    \/ SetQrCodePosition

SpecQr == Init /\ [][NextQr]_vars

(***************************************************************************)
(* The decode loop of VideoThread.run, one pass of `while self.running`    *)
(* per step, with the wall clock it reads                                  *)
(***************************************************************************)
\* self.max_duration, seconds
max_duration == 600

\* fps of the loop: 30 when the container reports none
DefaultFps == 30
ThreadFps(p) == IF Fps(p) <= 0 THEN DefaultFps ELSE Fps(p)

\* video_duration > self.max_duration, video_duration = total_frames / fps
LongVideo(p) == FrameCount(p) > max_duration * ThreadFps(p)

\* What one pass finds: cap.read() returns no frame, cap.read() raises, the
\* conversion of the frame raises (caught in the loop body), the frame is emitted
FrameOutcomes == {"no frame", "read raises", "frame raises", "frame"}

\* The pass emits update_frame
Emits(outcome) == outcome = "frame"

\* The pass leaves the loop: break on no frame, the outer except, or the time
\* limit, which is tested after the frame was emitted
LeavesLoop(p, elapsed_time, outcome) ==
    \/ outcome \in {"no frame", "read raises"}
    \/ outcome = "frame" /\ LongVideo(p) /\ elapsed_time >= max_duration

\* A step of the decode specification leaves result r; start_time is taken when
\* run() gets to its loop
HandleDecode(r, elapsed_time) ==
    /\ event_loop = "running"
    /\ Bounded(r)
    /\ Commit(r)
    /\ vt_elapsed' = IF vt_pc = "starting" /\ r.vt_pc = "decoding" THEN 0
                      ELSE elapsed_time
    /\ UNCHANGED <<universe, files, qr_code_position>>

\* show_current_media calls play_video for a video of the catalog
PlayVideo ==
    \E p \in {q \in universe : MediaType(q) = "video"} :
        HandleDecode(play_video(Self, p), vt_elapsed)

\* next_media stops the running thread
StopVideo == isRunning(Self) /\ HandleDecode(stop(Self), vt_elapsed)

\* run() from its start to the decode loop
DecodeBegins == vt_pc = "starting" /\ HandleDecode(run_begin(Self), vt_elapsed)

\* One pass of the loop with the flag set, dt seconds after the previous one
DecodePass(dt, outcome) ==
    /\ vt_pc = "decoding"
    /\ vt_elapsed + dt <= MaxElapsed
    /\ HandleDecode(IF LeavesLoop(vt_cap, vt_elapsed + dt, outcome)
                    THEN run_end(Self) ELSE Self,
                    vt_elapsed + dt)

DecodeIteration == \E dt \in {0, TickSec}, outcome \in FrameOutcomes : DecodePass(dt, outcome)

NextDecode ==
    \/ DecodeBegins
    \/ DecodeIteration
    \/ FileAppears
    \/ FileRemoved
    \/ PlayVideo
    \/ StopVideo
    \/ HandleVideoCompleted

SpecDecode == Init /\ [][NextDecode]_vars

TypeOK ==
    /\ files \subseteq universe
    /\ current_media_index \in Nat
    /\ vt_pc \in {"idle", "starting", "decoding"}
    /\ vt_elapsed \in 0..MaxElapsed
    /\ qr_code_position \in Seq({"top", "bottom", "left", "right", "-"})
    /\ (vt_cap # None) <=> (vt_pc = "decoding")
    /\ temp_image_label \in {"absent", "live", "scheduled", "deleted"}

(***************************************************************************)
(* Properties                                                              *)
(***************************************************************************)
\* The item at the current index, None when the index selects nothing
CurrentItem ==
    IF current_media_index < Len(media_files)
    THEN media_files[current_media_index + 1] ELSE None

\* A handler that ends in show_current_media, without start_slideshow's
\* timer.start after it
ShowEvent == TimerTimeout \/ ResizeEvent

\* The video p could be probed: the container opened and reported a frame rate
Probed(p) == MediaType(p) = "video" /\ Capture(p) = "open" /\ Fps(p) > 0

\* C1: whenever the catalog is non-empty, 0 <= current_media_index < len(media_files)
C1_IndexInRange ==
    media_files # <<>> =>
        (0 <= current_media_index /\ current_media_index < Len(media_files))

\* C2: with a non-empty catalog whose files all exist and which the call does not
\* modify, one next_media call (a dwell-timer expiry) sets the index to
\* (index + 1) mod len(catalog)
C2_NextMediaAdvancesByOne ==
    [][(/\ TimerTimeout
        /\ media_files # <<>>
        /\ \A i \in 1..Len(media_files) : media_files[i] \in files
        /\ media_files' = media_files)
       => current_media_index' = (current_media_index + 1) % Len(media_files)]_vars

\* C3: when show_current_media (here: of a resize event) finds the file of the
\* current item missing, it removes the item and afterwards the index is the old
\* index mod the new length, or, with the catalog now empty, the controller is
\* stopped: the dwell timer inactive and no video session running
C3_MissingFileSkipped ==
    [][(/\ ResizeEvent
        /\ CurrentItem # None
        /\ CurrentItem \notin files)
       => /\ event_loop' = "running"
          /\ Len(media_files') < Len(media_files)
          /\ IF media_files' = <<>>
             THEN ~timer_active' /\ vt_pc' = "idle"
             ELSE current_media_index' = current_media_index % Len(media_files')]_vars

\* C4: the slideshow is running (dwell timer active) exactly when the catalog is
\* non-empty
C4_RunningIffNonEmpty == timer_active <=> (media_files # <<>>)

\* C5: handling playback_completed changes neither the index nor the catalog nor
\* anything else but the dwell timer, which is active afterwards (and is left as
\* it was when it was active already)
C5_VideoCompletedOnlyArmsTimer ==
    [][HandleVideoCompleted =>
        /\ current_media_index' = current_media_index
        /\ media_files' = media_files
        /\ timer_active'
        /\ timer_active => UNCHANGED <<timer_interval, timer_elapsed>>
        /\ UNCHANGED <<display_duration, transition_style, temp_image_label,
                       image_visible, image_pixmap, transitions, vt_pc, vt_path,
                       vt_cap, event_loop, files>>]_vars

\* C5 witness: a video session has run and ended and every playback_completed it
\* emitted has been handled, with the item the timer will leave still selected
C5_Witness ==
    /\ vt_path # None /\ vt_pc = "idle" /\ vt_pending = 0
    /\ CurrentItem = vt_path
    /\ timer_active /\ event_loop = "running"

\* C6: whenever a video that could be probed is the current item and the dwell
\* timer is active, the interval is min(d, 600) * 1000 + 500 ms
C6_VideoDwell ==
    (/\ CurrentItem # None
     /\ Probed(CurrentItem)
     /\ timer_active)
    => timer_interval = Min(DurationMs(CurrentItem), MaxVideoSec * 1000) + BufferMs

\* C7: show_current_media leaves the timer interval at exactly 600000 ms when the
\* video it shows has a probed duration above 600 s
C7_LongVideoCapped ==
    [][(/\ event_loop' = "running"
        /\ CurrentItem' # None
        /\ Probed(CurrentItem') /\ TooLong(CurrentItem')
        /\ ShowEvent)
       => timer_interval' = 600000]_vars

\* C7 witness: the 700 s video is the current item, its session has been started
\* and the timer runs with the interval show_current_media gave it
C7_Witness ==
    /\ CurrentItem = "l.mp4" /\ vt_path = "l.mp4" /\ vt_pc = "decoding"
    /\ timer_active /\ timer_interval = 600000

\* C8: when the probe of the video show_current_media shows fails (it raises, the
\* container does not open, or the frame rate is 0 or less), the timer interval
\* is 600000 ms
C8_ProbeFailureFallback ==
    [][(/\ ShowEvent
        /\ event_loop' = "running"
        /\ CurrentItem' # None
        /\ MediaType(CurrentItem') = "video" /\ ~Probed(CurrentItem'))
       => timer_interval' = 600000]_vars

\* C9: a resize event leaves the index, the catalog, the dwell timer's remaining
\* time, the video session and the transitions in flight as they were
C9_ResizeFrame ==
    [][ResizeEvent =>
        UNCHANGED <<current_media_index, media_files, timer_active, timer_interval,
                    timer_elapsed, vt_pc, vt_path, vt_cap, vt_pending, transitions>>]_vars

\* C10: a dwell-timer expiry while a transition is still animating (its duration
\* exceeds the timer's interval, as the 1200 ms crossfade does with a 1000 ms
\* dwell) is ignored: the index does not advance and no second transition starts
C10_OneTransitionInFlight ==
    [][(/\ TimerTimeout
        /\ \E i \in 1..Len(transitions) : transitions[i].duration > timer_interval)
       => /\ current_media_index' = current_media_index
          /\ transitions' = transitions]_vars

\* C11: the decode thread's capture handle, while open, is the handle of the
\* session play_video started last: the session before it was stopped and its
\* handle released before play_video returned and the next file was opened
C11_OneSessionHandle == vt_cap # None => vt_cap = vt_path

\* C12: in every state, a call of stop() returns with the decode thread ended and
\* its capture handle released, and a second call of stop() changes nothing
C12_StopReleasesHandle ==
    LET r == stop(Self)
    IN  /\ r.vt_pc = "idle"
        /\ r.vt_cap = None
        /\ stop(r) = r

C14_LabelReleasedOnce ==
    [][\A i \in 1..Len(transitions) :
          (transitions[i].label # "live" /\ Handle(finish_animation(Self, i))) => FALSE]_vars

\* C15: when the transition to image X completes, the image label holds what
\* display_image(X) puts there
C15_FinalStateIsDirectRender ==
    [][\A i \in 1..Len(transitions) :
          (transitions[i].label = "live" /\ Handle(finish_animation(Self, i)))
              => image_pixmap' = DirectRender(transitions[i].path)]_vars

\* No image is on display: the image label has no pixmap, or it is hidden
NoPriorImage == image_pixmap = NoPixmap \/ ~image_visible

\* The item the handler of this step shows, when it shows exactly one item whose
\* file exists: the first item at the start of the slideshow, the current item
\* on a resize, the next item on a timer expiry
IsShownBy(item) ==
    \/ /\ ~timer_active /\ RefreshMediaList
       /\ media_files' # <<>> /\ item = media_files'[1]
    \/ /\ ResizeEvent
       /\ current_media_index < Len(media_files)
       /\ item = media_files[current_media_index + 1]
    \/ /\ TimerTimeout
       /\ media_files # <<>>
       /\ item = media_files[((current_media_index + 1) % Len(media_files)) + 1]

\* C16: with style crossfade and no prior image, showing an image starts no
\* crossfade and raises nothing: the image label is shown with the direct render
\* of the image (left as it was when the image does not load)
C16_CrossfadeSkipped ==
    [][\A item \in files :
          (/\ transition_style = "crossfade"
           /\ NoPriorImage
           /\ MediaType(item) = "image"
           /\ IsShownBy(item))
          => /\ transitions' = transitions
             /\ image_visible'
             /\ image_pixmap' = IF ImageIsNull(item) THEN image_pixmap
                                 ELSE DirectRender(item)
             /\ CurrentItem' = item
             /\ event_loop' = "running"]_vars

\* C16 witness: after a video was showing, the image a.jpg has been shown by a
\* direct cut: no crossfade is in flight
C16_Witness ==
    /\ transition_style = "crossfade"
    /\ vt_path = "s.mp4"
    /\ CurrentItem = "a.jpg"
    /\ image_visible /\ image_pixmap = DirectRender("a.jpg")
    /\ transitions = <<>>
    /\ timer_active /\ ~timer_elapsed

\* C17: every Ken Burns animation started with a dwell time d of the slider lasts
\* min(d - 500, 4000) ms, more than 0 and less than d; 4000 ms for d = 5000
C17_KenBurnsDuration ==
    \A i \in 1..Len(transitions) :
        LET duration == transitions[i].duration
        IN  /\ duration = (IF display_duration - 500 < 4000
                            THEN display_duration - 500 ELSE 4000)
            /\ 0 < duration /\ duration < display_duration
            /\ display_duration = 5000 => duration = 4000

\* C17 witness: a Ken Burns animation started with the dwell time 5000 ms
C17_Witness ==
    /\ display_duration = 5000
    /\ \E i \in 1..Len(transitions) :
          transitions[i].style = "ken burns" /\ transitions[i].duration = 4000

\* The item cannot be prepared for display: its file is missing, the image does
\* not load, or the video cannot be opened
CannotPrepare(item) ==
    \/ item \notin files
    \/ MediaType(item) = "image" /\ ImageIsNull(item)
    \/ MediaType(item) = "video" /\ Capture(item) = "closed"

\* C18: when show_current_media (here: of a resize event) finds that the current
\* item cannot be prepared, the item is removed from the catalog and the index
\* becomes the same index modulo the new catalog length
C18_UnpreparableRemoved ==
    [][\A item \in Paths :
          (/\ current_media_index < Len(media_files)
           /\ item = media_files[current_media_index + 1]
           /\ CannotPrepare(item)
           /\ ResizeEvent)
          => /\ \A i \in 1..Len(media_files') : media_files'[i] # item
             /\ media_files' # <<>> =>
                  current_media_index' = current_media_index % Len(media_files')]_vars

\* C19: while the catalog is non-empty and the window has not been closed, the
\* slideshow has not halted: the event loop is running and the dwell timer is
\* active, so that a later expiry selects a next item
C19_NeverHalts ==
    (media_files # <<>> /\ event_loop # "closed")
        => (event_loop = "running" /\ timer_active)

\* The path is in the catalog
Known(media_path) == \E i \in 1..Len(media_files) : media_files[i] = media_path

\* C20: add_media with a path that is in the catalog changes nothing (catalog,
\* index, timer, display, video thread), and for every path of the folder a
\* second delivery changes nothing after the first
C20_AddMediaIdempotent ==
    \A media_path \in files :
        LET once == add_media(Self, media_path)
        IN  /\ Known(media_path) => once = Self
            /\ add_media(once, media_path) = once

\* C20 witness: the slideshow runs on two items, the second one is current, and
\* add_media is delivered again for the first, which is still in the folder
C20_Witness ==
    /\ Len(media_files) = 2 /\ current_media_index = 1
    /\ timer_active /\ event_loop = "running"
    /\ media_files[1] \in files
    /\ add_media(Self, media_files[1]) = Self

\* The paths of a sequence
Range(seq) == {seq[i] : i \in 1..Len(seq)}

\* seq without the entries whose path is in ps, order kept
Without(seq, ps) == SelectSeq(seq, LAMBDA q : q \notin ps)

\* kept is a prefix of seq
IsPrefix(kept, seq) ==
    Len(kept) <= Len(seq) /\ SubSeq(seq, 1, Len(kept)) = kept

\* C21: a step changes the catalog only by removing entries whose file is missing
\* and by appending at its end: the entries that stay keep their order and come
\* before every new entry
C21_AppendOrRemoveOnly ==
    [][\E ps \in SUBSET (Range(media_files) \ files) :
          IsPrefix(Without(media_files, ps), media_files')]_vars

\* C22: no two entries of the catalog have the same path
C22_NoDuplicatePaths ==
    \A i, j \in 1..Len(media_files) : i # j => media_files[i] # media_files[j]

\* C22 witness: add_media has appended b.png and then a.jpg (a folder listing has
\* them in the other order), and a.jpg, which a further discovery or refresh
\* finds in the folder, is in the catalog once
C22_Witness ==
    /\ media_files = <<"b.png", "a.jpg">>
    /\ "a.jpg" \in files
    /\ timer_active

\* C23: in the decode loop of a video longer than 600 s, no pass that begins when
\* 600 s have elapsed since start_time emits a frame
C23_CeilingOnEveryPath ==
    [][\A dt \in {0, TickSec}, outcome \in FrameOutcomes :
          (/\ vt_pc = "decoding" /\ LongVideo(vt_cap)
           /\ vt_elapsed >= max_duration
           /\ DecodePass(dt, outcome))
          => ~Emits(outcome)]_vars

\* The item the next timer expiry switches to
NextItem == media_files[((current_media_index + 1) % Len(media_files)) + 1]

\* C24: with style fade, slide or zoom, a timer expiry that switches from a
\* displayed image to the next image starts a transition to it, of the style's
\* duration (800 ms for fade)
C24_TransitionEntered ==
    [][(/\ transition_style \in {"fade", "slide", "zoom"}
        /\ Len(media_files) >= 2
        /\ \A i \in 1..Len(media_files) : media_files[i] \in files
        /\ CurrentItem # None /\ image_pixmap = DirectRender(CurrentItem)
        /\ image_visible
        /\ ~ImageIsNull(NextItem)
        /\ TimerTimeout)
       => \E i \in 1..Len(transitions') :
              /\ transitions'[i].path = NextItem
              /\ transitions'[i].duration = TransitionMs(transition_style)]_vars

\* The corner of the widget a badge with geometry g lies in
CornerOf(g) ==
    <<IF 2 * g.y + qr_code_size < WidgetHeight THEN "Top" ELSE "Bottom",
      IF 2 * g.x + qr_code_size < WidgetWidth THEN "Left" ELSE "Right">>

\* C25: after a position is selected in the control panel while an item is on
\* display, position_qr_code places the badge in the corner the selected text names
C25_QrCornerSelected ==
    [][\A text \in QrPanelTexts :
          (/\ SelectQrPosition(text)
           /\ event_loop' = "running"
           /\ CurrentItem' # None /\ CurrentItem' \in files
           /\ MediaType(CurrentItem') = "image" => ~ImageIsNull(CurrentItem'))
          => CornerOf(position_qr_code(qr_code_position')) = <<text[1], text[3]>>]_vars

\* C26: once stop_slideshow has run (closeEvent) and the timer is inactive, no
\* later event reactivates the timer or changes the index
C26_StoppedStaysStopped ==
    [][(event_loop = "closed" /\ ~timer_active)
       => (~timer_active' /\ current_media_index' = current_media_index)]_vars

\* C27: a dwell-timer expiry on a catalog in which every item is a video whose
\* file exists and cannot be opened is handled to its end: next_media returns
C27_NextMediaReturns ==
    [][(/\ media_files # <<>>
        /\ \A i \in 1..Len(media_files) :
              /\ media_files[i] \in files
              /\ MediaType(media_files[i]) = "video"
              /\ Capture(media_files[i]) = "closed"
        /\ temp_image_label # "deleted"
        /\ timer_active /\ timer_elapsed /\ event_loop = "running"
        /\ TimerTimeout)
       => event_loop' = "running"]_vars

\* show_current_media of a resize event gets to apply_transition(old_image_label):
\* the current item is set up, temp_image_label exists, the style is fade, slide
\* or zoom
ReachesApplyTransition ==
    /\ CurrentItem # None /\ CurrentItem \in files
    /\ MediaType(CurrentItem) = "video" => Capture(CurrentItem) # "closed"
    /\ temp_image_label # "absent"
    /\ transition_style \in {"fade", "slide", "zoom"}

\* C28: whenever show_current_media passes temp_image_label to apply_transition,
\* the label is live: deleteLater has not been called on it
C28_LabelLiveWhenRead ==
    [][(ReachesApplyTransition /\ ResizeEvent) => temp_image_label = "live"]_vars

\* C29: a step in which run() ends (the thread was started or decoding and is
\* idle afterwards) queues exactly one playback_completed signal
C29_CompletedOncePerRun ==
    [][(vt_pc # "idle" /\ vt_pc' = "idle") => vt_pending' = vt_pending + 1]_vars

\* C30: when play_video(p) has returned for a file p of the folder, the video
\* thread is about to decode p (started on p) or is decoding p
C30_SessionForPathStarted ==
    [][\A p \in {q \in files : MediaType(q) = "video"} :
          HandleDecode(play_video(Self, p), vt_elapsed)
          => \/ vt_pc' = "starting" /\ vt_path' = p
             \/ vt_pc' = "decoding" /\ vt_cap' = p]_vars

====
